---- MODULE Spec2Model ----
(***************************************************************************)
(* LucidAd: the analyze route (app/api/analyze/route.ts), the zod result   *)
(* schema (lib/schema.ts) and the page component (app/page.tsx) of         *)
(* src/lucid_ad_next.jsx.                                                  *)
(*                                                                         *)
(* JSON values are tagged records:                                         *)
(*   [t |-> "undefined"]                 an absent key / JS undefined      *)
(*   [t |-> "null"]                                                        *)
(*   [t |-> "boolean", b |-> TRUE]                                         *)
(*   [t |-> "string",  s |-> "..."]                                        *)
(*   [t |-> "number",  n |-> i, f |-> d]  the number i + d/10, d in 0..9   *)
(*   [t |-> "array",   a |-> <<...>>]                                      *)
(*   [t |-> "object",  o |-> function from the present keys to values]     *)
(***************************************************************************)
EXTENDS Integers, Sequences, FiniteSets, TLC

VARIABLES
    pc,          \* POST: "readBody", "create" (awaiting the external call), "done"
    req,         \* the incoming request: what req.json() does, and the body
    image,       \* POST's local `image` once the body was destructured
    calls,       \* number of client.responses.create calls issued
    ext,         \* what awaiting client.responses.create produced
    parsed,      \* POST's local `parsed` (JSON.parse of output_text)
    status,      \* HTTP status of the response, 0 until one is returned
    respBody,    \* JSON body of the response
    vpc,         \* schema harness: "input", "validated", "serialized", "reparsed", "revalidated"
    cand,        \* schema harness: the candidate handed to factCheckZ
    first,       \* schema harness: outcome of the first factCheckZ.safeParse
    wire,        \* schema harness: JSON text of the first validated result
    back,        \* schema harness: JSON.parse(wire)
    second,      \* schema harness: outcome of validating `back`
    mounted,         \* Page: the component is mounted
    imageDataUrl,    \* Page state: the selected image (a data URL) or null
    result,          \* Page state: the displayed FactCheckResult or null
    resultOf,        \* history: the image the request that set `result` carried
    loading,         \* Page state: the in-flight flag
    error,           \* Page state: the displayed error message or null
    isDesktop,       \* Page state
    cameraSupported, \* Page state
    runs,            \* Page: the analyze() invocations suspended at an await
    readers          \* Page: the FileReader loads that have not fired onload yet

vars == <<pc, req, image, calls, ext, parsed, status, respBody,
          vpc, cand, first, wire, back, second,
          mounted, imageDataUrl, result, resultOf, loading, error,
          isDesktop, cameraSupported, runs, readers>>

hvars == <<pc, req, image, calls, ext, parsed, status, respBody>>
vvars == <<vpc, cand, first, wire, back, second>>
uvars == <<mounted, imageDataUrl, result, resultOf, loading, error,
           isDesktop, cameraSupported, runs, readers>>

(***************************************************************************)
(* JSON values                                                             *)
(***************************************************************************)
Undef == [t |-> "undefined"]
Null == [t |-> "null"]
Bool(b) == [t |-> "boolean", b |-> b]
Str(s) == [t |-> "string", s |-> s]
Num(n, f) == [t |-> "number", n |-> n, f |-> f]
IntNum(n) == Num(n, 0)
Arr(a) == [t |-> "array", a |-> a]
Obj(o) == [t |-> "object", o |-> o]

EmptyObj == Obj([k \in {} |-> Undef])

\* o[k] in JavaScript: undefined when the key is absent.
Get(v, k) == IF v.t = "object" /\ k \in DOMAIN v.o THEN v.o[k] ELSE Undef

\* The object v with key k set to x; setting undefined removes the key
\* (a JSON document cannot carry a key whose value is undefined).
With(v, k, x) ==
    IF x.t = "undefined"
    THEN Obj([j \in DOMAIN v.o \ {k} |-> v.o[j]])
    ELSE Obj([j \in DOMAIN v.o \cup {k} |-> IF j = k THEN x ELSE v.o[j]])

(***************************************************************************)
(* JSON text.  A text is a sequence of tokens: punctuation                 *)
(* [t |-> "punct", s |-> c], scalar literals (the scalar value records),   *)
(* and [t |-> "word", s |-> w] for characters that are not JSON.           *)
(***************************************************************************)
P(c) == [t |-> "punct", s |-> c]
Word(w) == [t |-> "word", s |-> w]

RECURSIVE Stringify(_), StringifyItems(_, _), StringifyMembers(_, _, _)

\* JSON.stringify: scalars are written as literals, an undefined array item
\* as null, an object member whose value is undefined is left out.
Stringify(v) ==
    IF v.t \in {"null", "boolean", "string", "number"} THEN <<v>>
    ELSE IF v.t = "array" THEN <<P("[")>> \o StringifyItems(v.a, 1) \o <<P("]")>>
    ELSE IF v.t = "object"
         THEN <<P("{")>> \o StringifyMembers(v, DOMAIN v.o, TRUE) \o <<P("}")>>
    ELSE <<>>

StringifyItems(a, i) ==
    IF i > Len(a) THEN <<>>
    ELSE (IF i > 1 THEN <<P(",")>> ELSE <<>>)
         \o (IF a[i].t = "undefined" THEN <<Null>> ELSE Stringify(a[i]))
         \o StringifyItems(a, i + 1)

StringifyMembers(v, keys, isFirst) ==
    IF keys = {} THEN <<>>
    ELSE LET k == CHOOSE j \in keys : TRUE
         IN  IF v.o[k].t = "undefined"
             THEN StringifyMembers(v, keys \ {k}, isFirst)
             ELSE (IF isFirst THEN <<>> ELSE <<P(",")>>)
                  \o <<Str(k), P(":")>> \o Stringify(v.o[k])
                  \o StringifyMembers(v, keys \ {k}, FALSE)

SyntaxFail == [ok |-> FALSE, v |-> Undef, nx |-> 0]

IsP(ts, i, c) == i <= Len(ts) /\ ts[i].t = "punct" /\ ts[i].s = c

RECURSIVE ParseValue(_, _), ParseItems(_, _, _), ParseMembers(_, _, _)

\* Recursive-descent reading of one JSON value starting at token i.
ParseValue(ts, i) ==
    IF i > Len(ts) THEN SyntaxFail
    ELSE IF ts[i].t \in {"null", "boolean", "string", "number"}
         THEN [ok |-> TRUE, v |-> ts[i], nx |-> i + 1]
    ELSE IF IsP(ts, i, "[")
         THEN IF IsP(ts, i + 1, "]")
              THEN [ok |-> TRUE, v |-> Arr(<<>>), nx |-> i + 2]
              ELSE ParseItems(ts, i + 1, <<>>)
    ELSE IF IsP(ts, i, "{")
         THEN IF IsP(ts, i + 1, "}")
              THEN [ok |-> TRUE, v |-> EmptyObj, nx |-> i + 2]
              ELSE ParseMembers(ts, i + 1, EmptyObj)
    ELSE SyntaxFail

ParseItems(ts, i, acc) ==
    LET r == ParseValue(ts, i)
    IN  IF ~r.ok THEN SyntaxFail
        ELSE IF IsP(ts, r.nx, ",") THEN ParseItems(ts, r.nx + 1, Append(acc, r.v))
        ELSE IF IsP(ts, r.nx, "]")
             THEN [ok |-> TRUE, v |-> Arr(Append(acc, r.v)), nx |-> r.nx + 1]
        ELSE SyntaxFail

ParseMembers(ts, i, acc) ==
    IF i > Len(ts) THEN SyntaxFail
    ELSE IF ts[i].t # "string" \/ ~IsP(ts, i + 1, ":") THEN SyntaxFail
    ELSE LET r == ParseValue(ts, i + 2)
         IN  IF ~r.ok THEN SyntaxFail
             ELSE IF IsP(ts, r.nx, ",")
                  THEN ParseMembers(ts, r.nx + 1, With(acc, ts[i].s, r.v))
             ELSE IF IsP(ts, r.nx, "}")
                  THEN [ok |-> TRUE, v |-> With(acc, ts[i].s, r.v), nx |-> r.nx + 1]
             ELSE SyntaxFail

\* JSON.parse(text): the value, or a SyntaxError when the text is not
\* exactly one JSON value.
JSONparse(text) ==
    LET r == ParseValue(text, 1)
    IN  IF r.ok /\ r.nx = Len(text) + 1
        THEN [ok |-> TRUE, v |-> r.v]
        ELSE [ok |-> FALSE, v |-> Undef]

(***************************************************************************)
(* zod schemas as data, and zod's parse                                    *)
(***************************************************************************)
zString == [z |-> "string", checks |-> <<>>]
zNumber == [z |-> "number", checks |-> <<>>]
zUrl(s) == [s EXCEPT !.checks = Append(@, [c |-> "url", k |-> 0])]
zInt(s) == [s EXCEPT !.checks = Append(@, [c |-> "int", k |-> 0])]
zMin(s, k) == [s EXCEPT !.checks = Append(@, [c |-> "min", k |-> k])]
zMax(s, k) == [s EXCEPT !.checks = Append(@, [c |-> "max", k |-> k])]
zNullable(s) == [z |-> "nullable", inner |-> s]
zOptional(s) == [z |-> "optional", inner |-> s]
zDefault(s, d) == [z |-> "default", inner |-> s, def |-> d]
zArray(s) == [z |-> "array", inner |-> s]
zObject(keys, shape) == [z |-> "object", keys |-> keys, shape |-> shape]

\* The strings of the model that `new URL(s)` accepts.
WellFormedURLs == {"https://example.com/specs", "https://example.com/review"}
IsURL(s) == s \in WellFormedURLs

Issue(path, message) == [path |-> path, message |-> message]

\* One refinement of a string or number that already has the right type.
CheckIssues(ck, v, path) ==
    IF ck.c = "url" THEN IF IsURL(v.s) THEN <<>> ELSE <<Issue(path, "invalid_string")>>
    ELSE IF ck.c = "int" THEN IF v.f = 0 THEN <<>> ELSE <<Issue(path, "not_integer")>>
    ELSE IF ck.c = "min" THEN IF v.n >= ck.k THEN <<>> ELSE <<Issue(path, "too_small")>>
    ELSE IF ck.c = "max"
         THEN IF v.n < ck.k \/ (v.n = ck.k /\ v.f = 0)
              THEN <<>> ELSE <<Issue(path, "too_big")>>
    ELSE <<>>

RECURSIVE AllCheckIssues(_, _, _, _)
AllCheckIssues(checks, i, v, path) ==
    IF i > Len(checks) THEN <<>>
    ELSE CheckIssues(checks[i], v, path) \o AllCheckIssues(checks, i + 1, v, path)

TypeIssue(v, path) ==
    <<Issue(path, IF v.t = "undefined" THEN "Required" ELSE "invalid_type")>>

RECURSIVE zParse(_, _, _), zParseItems(_, _, _, _), zParseKeys(_, _, _, _)

\* schema._parse(v): the issues found (all of them, in schema order) and
\* the output value; the parse succeeds exactly when there is no issue.
zParse(s, v, path) ==
    IF s.z \in {"string", "number"}
    THEN IF v.t # s.z THEN [issues |-> TypeIssue(v, path), out |-> Undef]
         ELSE [issues |-> AllCheckIssues(s.checks, 1, v, path), out |-> v]
    ELSE IF s.z = "nullable"
    THEN IF v.t = "null" THEN [issues |-> <<>>, out |-> Null]
         ELSE zParse(s.inner, v, path)
    ELSE IF s.z = "optional"
    THEN IF v.t = "undefined" THEN [issues |-> <<>>, out |-> Undef]
         ELSE zParse(s.inner, v, path)
    ELSE IF s.z = "default"
    THEN zParse(s.inner, IF v.t = "undefined" THEN s.def ELSE v, path)
    ELSE IF s.z = "array"
    THEN IF v.t # "array" THEN [issues |-> TypeIssue(v, path), out |-> Undef]
         ELSE zParseItems(s.inner, v.a, path, 1)
    ELSE IF s.z = "object"
    THEN IF v.t # "object" THEN [issues |-> TypeIssue(v, path), out |-> Undef]
         ELSE zParseKeys(s, v, path, 1)
    ELSE [issues |-> <<>>, out |-> v]

zParseItems(s, a, path, i) ==
    IF i > Len(a) THEN [issues |-> <<>>, out |-> Arr(<<>>)]
    ELSE LET h == zParse(s, a[i], Append(path, i))
             r == zParseItems(s, a, path, i + 1)
         IN  [issues |-> h.issues \o r.issues, out |-> Arr(<<h.out>> \o r.out.a)]

\* Unknown keys are stripped; a key of the shape is set in the output when
\* its parsed value is not undefined or the key is present in the input.
zParseKeys(s, v, path, i) ==
    IF i > Len(s.keys) THEN [issues |-> <<>>, out |-> EmptyObj]
    ELSE LET k == s.keys[i]
             h == zParse(s.shape[k], Get(v, k), Append(path, k))
             r == zParseKeys(s, v, path, i + 1)
         IN  [issues |-> h.issues \o r.issues, out |-> With(r.out, k, h.out)]

\* schema.safeParse(v)
safeParse(s, v) ==
    LET r == zParse(s, v, <<>>)
    IN  [success |-> r.issues = <<>>,
         data |-> IF r.issues = <<>> THEN r.out ELSE Undef,
         issues |-> r.issues]

\* A flatten that reports the first issue only.
flatten_firstIssue(issues) ==
    LET one == SubSeq(issues, 1, 1)
        root == SelectSeq(one, LAMBDA e : e.path = <<>>)
        deep == SelectSeq(one, LAMBDA e : e.path # <<>>)
        names == {deep[i].path[1] : i \in 1..Len(deep)}
        msgs(q) == Arr([i \in 1..Len(q) |-> Str(q[i].message)])
    IN  Obj([k \in {"formErrors", "fieldErrors"} |->
              IF k = "formErrors" THEN msgs(root)
              ELSE Obj([f \in names |-> msgs(deep)])])

\* ZodError.flatten(): issues at the root go to formErrors, every other
\* issue is filed under the first element of its path.
flatten(issues) ==
    LET root == SelectSeq(issues, LAMBDA e : e.path = <<>>)
        deep == SelectSeq(issues, LAMBDA e : e.path # <<>>)
        names == {deep[i].path[1] : i \in 1..Len(deep)}
        msgs(q) == Arr([i \in 1..Len(q) |-> Str(q[i].message)])
    IN  Obj([k \in {"formErrors", "fieldErrors"} |->
              IF k = "formErrors" THEN msgs(root)
              ELSE Obj([f \in names |->
                        msgs(SelectSeq(deep, LAMBDA e : e.path[1] = f))])])

(***************************************************************************)
(* lib/schema.ts                                                           *)
(***************************************************************************)
sourceZ ==
    zObject(<<"title", "url">>,
            [title |-> zOptional(zNullable(zString)),
             url |-> zUrl(zString)])

FieldOrder ==
    <<"productName", "company", "keyNumbers", "measurableFacts",
      "category", "briefContext", "truthScore", "report", "sources">>

factCheckShape ==
    [productName |-> zNullable(zString),
     company |-> zNullable(zString),
     keyNumbers |-> zDefault(zArray(zString), Arr(<<>>)),
     measurableFacts |-> zDefault(zArray(zString), Arr(<<>>)),
     category |-> zNullable(zString),
     briefContext |-> zNullable(zString),
     truthScore |-> zNullable(zMax(zMin(zInt(zNumber), 0), 100)),
     report |-> zString,
     sources |-> zDefault(zArray(sourceZ), Arr(<<>>))]

\* Variants of factCheckZ with one line written differently.
factCheckZ_productNameNotNullable ==
    zObject(FieldOrder, [factCheckShape EXCEPT !.productName = zString])

factCheckZ_noMax ==
    zObject(FieldOrder,
            [factCheckShape EXCEPT !.truthScore = zNullable(zMin(zInt(zNumber), 0))])

factCheckZ_reportOptional ==
    zObject(FieldOrder, [factCheckShape EXCEPT !.report = zOptional(zString)])

factCheckZ_noDefault ==
    zObject(FieldOrder, [factCheckShape EXCEPT !.keyNumbers = zArray(zString)])

factCheckZ_sourcesRequired ==
    zObject(FieldOrder, [factCheckShape EXCEPT !.sources = zArray(sourceZ)])

factCheckZ == zObject(FieldOrder, factCheckShape)

(***************************************************************************)
(* Candidates handed to the validator                                      *)
(***************************************************************************)
\* Longest array written into a changed field.
MaxItems == 2

\* How far below 0 and above 100 the integer scores of changed fields go.
Over == 2

NullableStringFields == {"productName", "company", "category", "briefContext"}
StringArrayFields == {"keyNumbers", "measurableFacts"}
Fields == NullableStringFields \cup StringArrayFields
          \cup {"truthScore", "report", "sources"}

MkSource(title, url) == With(With(EmptyObj, "title", title), "url", url)

\* The data of the test "accepts a valid response".
ValidResponse ==
    Obj([k \in Fields |->
        CASE k = "productName" -> Str("TurboBattery X")
          [] k = "company" -> Str("PowerCorp")
          [] k = "keyNumbers" -> Arr(<<Str("3x longer"), Str("5000mAh")>>)
          [] k = "measurableFacts" -> Arr(<<Str("Battery capacity: 5000mAh")>>)
          [] k = "category" -> Str("tech spec")
          [] k = "briefContext" -> Str("Smartphone battery endurance claim.")
          [] k = "truthScore" -> IntNum(72)
          [] k = "report" -> Str("Independent tests show above-average endurance.")
          [] k = "sources" ->
                Arr(<<MkSource(Str("PowerCorp specs"), Str("https://example.com/specs")),
                      MkSource(Str("Lab review"), Str("https://example.com/review"))>>)])

\* The data of the test "allows nullables and defaults".
Minimal ==
    Obj([k \in Fields |->
        CASE k \in NullableStringFields -> Null
          [] k \in StringArrayFields -> Arr(<<>>)
          [] k = "truthScore" -> Null
          [] k = "report" -> Str("Insufficient information to verify.")
          [] k = "sources" -> Arr(<<>>)])

NonObjects == {Null, IntNum(5), Str("ok"), Bool(TRUE), Arr(<<>>), Arr(<<Minimal>>), EmptyObj}

\* The values candidates are derived from.
Bases == {ValidResponse, Minimal} \cup NonObjects

GoodSource == MkSource(Str("Lab review"), Str("https://example.com/review"))

SourceVariants ==
    { GoodSource,
      MkSource(Undef, Str("https://example.com/specs")),
      MkSource(Null, Str("https://example.com/specs")),
      MkSource(Str("Blog"), Str("not a url")),
      MkSource(Str("Blog"), Str("")),
      MkSource(Str("Blog"), Undef),
      MkSource(Str("Blog"), IntNum(5)),
      MkSource(IntNum(5), Str("https://example.com/specs")),
      With(GoodSource, "extra", Str("x")),
      Str("https://example.com/specs") }

\* The arrays of at most MaxItems items: copies of `good`, then one of `last`.
Arrays(good, last) ==
    {Arr(<<>>)} \cup
    {Arr([i \in 1..k |-> IF i < k THEN good ELSE x]) : k \in 1..MaxItems, x \in last}

\* The values field f of a candidate derived from b may take: the value b
\* has, and others; undefined stands for a removed key.
Alt(b, f) ==
    {Get(b, f)} \cup
    CASE f \in NullableStringFields -> {Undef, Null, Str("X"), Str(""), IntNum(7)}
      [] f \in StringArrayFields ->
            {Undef, Null, Str("45W")} \cup Arrays(Str("45W"), {Str("3x"), IntNum(5000)})
      [] f = "truthScore" ->
            {Undef, Null, Str("72"), IntNum(0), IntNum(50), IntNum(100),
             Num(72, 5), Num(100, 5), Num(-1, 5)}
            \cup {IntNum(0 - d) : d \in 1..Over} \cup {IntNum(100 + d) : d \in 1..Over}
            \cup {IntNum(120), IntNum(-5)}
      [] f = "report" -> {Undef, Null, Str(""), Str("x"), IntNum(1)}
      [] f = "sources" ->
            {Undef, Null, Str("none")} \cup Arrays(GoodSource, SourceVariants)
      [] OTHER -> {Str("x")}

\* Keys a candidate may have changed: the nine fields and an unknown key.
Keys == FieldOrder \o <<"extra">>

\* The pairs of keys changed together, each pair once.
KeyPairs == UNION {{<<Keys[i], Keys[j]>> : j \in i..Len(Keys)} : i \in 1..Len(Keys)}

\* b with fields f1 and f2 set to x1 and x2 (b itself when it is no object).
Candidate(b, f1, x1, f2, x2) ==
    IF b.t = "object" /\ DOMAIN b.o # {} THEN With(With(b, f1, x1), f2, x2) ELSE b

(***************************************************************************)
(* Schema harness: the calls of __tests__/factCheckResult.schema.test.ts,  *)
(* followed by the JSON round trip of a validated result (the route        *)
(* serializes it, the page reads it back).                                 *)
(***************************************************************************)
NoOutcome == [success |-> FALSE, data |-> Undef, issues |-> <<>>]
NoExt == [kind |-> "none", err |-> [name |-> "", message |-> "", issues |-> <<>>], text |-> <<>>]

HandlerOff ==
    /\ pc = "off" /\ req = <<>> /\ image = Undef /\ calls = 0 /\ ext = NoExt
    /\ parsed = Undef /\ status = 0 /\ respBody = Undef

HarnessOff ==
    /\ vpc = "off" /\ cand = Undef /\ first = NoOutcome /\ wire = <<>>
    /\ back = Undef /\ second = NoOutcome

PageOff ==
    /\ mounted = FALSE /\ imageDataUrl = Null /\ result = Null /\ resultOf = Null
    /\ loading = FALSE /\ error = Null /\ isDesktop = FALSE
    /\ cameraSupported = TRUE /\ runs = <<>> /\ readers = <<>>

InitV ==
    /\ HandlerOff
    /\ PageOff
    /\ vpc = "input" /\ first = NoOutcome /\ wire = <<>>
    /\ \E b \in Bases, kp \in KeyPairs :
          \E x1 \in Alt(b, kp[1]), x2 \in Alt(b, kp[2]) :
             cand = Candidate(b, kp[1], x1, kp[2], x2)
    /\ back = Undef /\ second = NoOutcome

\* factCheckZ.parse(data)
Validate ==
    /\ vpc = "input"
    /\ first' = safeParse(factCheckZ, cand)
    /\ vpc' = "validated"
    /\ UNCHANGED <<cand, wire, back, second>>
    /\ UNCHANGED hvars
    /\ UNCHANGED uvars

\* A serializer that leaves out the members whose value is null.
Serialize_omitNulls ==
    /\ vpc = "validated" /\ first.success
    /\ wire' = Stringify(Obj([k \in {j \in DOMAIN first.data.o : first.data.o[j].t # "null"}
                                |-> first.data.o[k]]))
    /\ vpc' = "serialized"
    /\ UNCHANGED <<cand, first, back, second>>
    /\ UNCHANGED hvars
    /\ UNCHANGED uvars

\* NextResponse.json(validated): the validated result written as JSON text.
Serialize ==
    /\ vpc = "validated" /\ first.success
    /\ wire' = Stringify(first.data)
    /\ vpc' = "serialized"
    /\ UNCHANGED <<cand, first, back, second>>
    /\ UNCHANGED hvars
    /\ UNCHANGED uvars

\* res.json(): the text read back.
Reparse ==
    /\ vpc = "serialized"
    /\ back' = JSONparse(wire).v
    /\ vpc' = "reparsed"
    /\ UNCHANGED <<cand, first, wire, second>>
    /\ UNCHANGED hvars
    /\ UNCHANGED uvars

\* factCheckZ.parse on the value read back.
Revalidate ==
    /\ vpc = "reparsed"
    /\ second' = safeParse(factCheckZ, back)
    /\ vpc' = "revalidated"
    /\ UNCHANGED <<cand, first, wire, back>>
    /\ UNCHANGED hvars
    /\ UNCHANGED uvars

NextV == Validate \/ Serialize \/ Reparse \/ Revalidate

SpecV == InitV /\ [][NextV]_vars

(***************************************************************************)
(* app/api/analyze/route.ts                                                *)
(***************************************************************************)
startsWith(s, prefix) ==
    Len(s) >= Len(prefix) /\ SubSeq(s, 1, Len(prefix)) = prefix

\* JavaScript's !v
Falsy(v) ==
    \/ v.t \in {"undefined", "null"}
    \/ v.t = "boolean" /\ ~v.b
    \/ v.t = "number" /\ v.n = 0 /\ v.f = 0
    \/ v.t = "string" /\ v.s = ""

\* The check without its prefix test.
InvalidImage_noPrefix(img) == Falsy(img) \/ img.t # "string"

\* !image || typeof image !== "string" || !image.startsWith("data:image")
InvalidImage(img) ==
    Falsy(img) \/ img.t # "string" \/ ~startsWith(img.s, "data:image")

InvalidImageMessage ==
    "Invalid image. Send a data URL (base64) captured from camera or upload."

Err(name, message, issues) == [name |-> name, message |-> message, issues |-> issues]

\* NextResponse.json(value, {status}): the body is the JSON text of value;
\* it is kept here as the value a client reads from that text.
NextResponseJson(value, st) ==
    [status |-> st, body |-> JSONparse(Stringify(value)).v]

ErrorBody(e) == With(EmptyObj, "error", e)

\* A catch block that takes every error for a validation error.
CatchResponse_all422(err) ==
    NextResponseJson(ErrorBody(flatten(err.issues)), 422)

\* The catch block of POST.
CatchResponse(err) ==
    IF err.name = "ZodError"
    THEN NextResponseJson(ErrorBody(flatten(err.issues)), 422)
    ELSE NextResponseJson(
             ErrorBody(Str(IF err.message = "" THEN "Unexpected server error"
                           ELSE err.message)), 500)

ImageValues ==
    { Undef, Null, Bool(FALSE), Bool(TRUE), IntNum(0), IntNum(5),
      Str(""), Str("photo.jpg"), Str("data:imag"),
      Str("xdata:image/png;base64,AAA"), Str("data:text/plain;base64,AAA"),
      Str("data:image/png;base64,AAA"), Str("data:image/webp;base64,UklGR"),
      Arr(<<Str("data:image/png;base64,AAA")>>),
      With(EmptyObj, "src", Str("data:image/png;base64,AAA")) }

RequestBodies ==
    {With(EmptyObj, "image", x) : x \in ImageValues}
    \cup {With(With(EmptyObj, "image", x), "note", Str("n")) :
             x \in {Undef, Str("photo.jpg"), Str("data:image/png;base64,AAA")}}
    \cup {Null, IntNum(5), Str("data:image/png;base64,AAA"), Arr(<<>>)}

\* Request body texts: JSON documents, and texts req.json() cannot read.
RequestTexts ==
    {Stringify(b) : b \in RequestBodies}
    \cup {<<>>, <<P("{")>>, <<Word("image=photo.jpg")>>}

Truncated(text) == SubSeq(text, 1, Len(text) - 1)

Response(text) == [kind |-> "response", err |-> Err("", "", <<>>), text |-> text]

\* What awaiting client.responses.create can produce besides JSON: a
\* rejection, or a response whose output_text is no JSON document (a
\* missing output_text reads as the text `undefined`).
Failures ==
    {[kind |-> "throw", err |-> e, text |-> <<>>] :
        e \in {Err("Error", "Connection error.", <<>>),
               Err("Error", "429 Rate limit reached for gpt-4o in organization org-abc123", <<>>),
               Err("Error", "", <<>>),
               Err("null", "", <<>>)}}
    \cup {Response(x) :
        x \in {<<>>, <<Word("undefined")>>, <<Word("Sorry, I cannot help.")>>,
               Truncated(Stringify(ValidResponse)), Truncated(Stringify(Minimal))}}

Init ==
    /\ HarnessOff
    /\ PageOff
    /\ pc = "readBody" /\ req \in RequestTexts /\ image = Undef /\ calls = 0
    /\ ext = NoExt
    /\ parsed = Undef /\ status = 0 /\ respBody = Undef

Respond(r) ==
    /\ status' = r.status
    /\ respBody' = r.body
    /\ pc' = "done"

\* POST up to its second await: read the body, check the image and issue
\* the call to the inference service.
POST_readBody ==
    /\ pc = "readBody"
    /\ LET b == JSONparse(req)
       IN  IF ~b.ok
           THEN /\ Respond(CatchResponse(Err("SyntaxError", "Unexpected end of JSON input", <<>>)))
                /\ UNCHANGED <<image, calls>>
           ELSE IF b.v.t = "null"
           THEN /\ Respond(CatchResponse(Err("TypeError", "Cannot destructure property 'image' of null", <<>>)))
                /\ UNCHANGED <<image, calls>>
           ELSE /\ image' = Get(b.v, "image")
                /\ IF InvalidImage(image')
                   THEN /\ Respond(NextResponseJson(ErrorBody(Str(InvalidImageMessage)), 400))
                        /\ UNCHANGED calls
                   ELSE /\ calls' = calls + 1
                        /\ pc' = "create"
                        /\ UNCHANGED <<status, respBody>>
    /\ UNCHANGED <<req, ext, parsed>>
    /\ UNCHANGED vvars
    /\ UNCHANGED uvars

SyntaxErr == Err("SyntaxError", "Unexpected token in JSON", <<>>)

\* A tail of POST that answers 200 with whatever was parsed.
AfterCreate_lenient(out) ==
    IF out.kind = "throw"
    THEN [resp |-> CatchResponse(out.err), parsed |-> Undef]
    ELSE LET p == JSONparse(out.text)
         IN  IF ~p.ok
             THEN [resp |-> CatchResponse(SyntaxErr), parsed |-> Undef]
             ELSE [resp |-> NextResponseJson(p.v, 200), parsed |-> p.v]

\* POST after the external call: output_text is parsed, the parsed value
\* validated, and the validated value returned; every throw goes to catch.
AfterCreate(out) ==
    IF out.kind = "throw"
    THEN [resp |-> CatchResponse(out.err), parsed |-> Undef]
    ELSE LET p == JSONparse(out.text)
             r == safeParse(factCheckZ, p.v)
         IN  IF ~p.ok
             THEN [resp |-> CatchResponse(SyntaxErr), parsed |-> Undef]
             ELSE IF r.success
             THEN [resp |-> NextResponseJson(r.data, 200), parsed |-> p.v]
             ELSE [resp |-> CatchResponse(Err("ZodError", "invalid", r.issues)),
                   parsed |-> p.v]

\* A return that calls the service again when the first answer is no good.
Return_retry(out) ==
    LET a == AfterCreate(out)
    IN  /\ ext' = out
        /\ parsed' = a.parsed
        /\ IF a.resp.status # 200 /\ calls < 2
           THEN /\ calls' = calls + 1
                /\ UNCHANGED <<pc, status, respBody>>
           ELSE /\ Respond(a.resp)
                /\ UNCHANGED calls

\* POST returns what the outcome of the external call leads to; no further
\* call is issued.
Return(out) ==
    LET a == AfterCreate(out)
    IN  /\ ext' = out
        /\ parsed' = a.parsed
        /\ Respond(a.resp)
        /\ UNCHANGED calls

\* POST from the resolution of client.responses.create to its return.
POST_create ==
    /\ pc = "create"
    /\ \/ \E out \in Failures : Return(out)
       \/ \E b \in Bases, kp \in KeyPairs :
             \E x1 \in Alt(b, kp[1]), x2 \in Alt(b, kp[2]) :
                Return(Response(Stringify(Candidate(b, kp[1], x1, kp[2], x2))))
    /\ UNCHANGED <<req, image>>
    /\ UNCHANGED vvars
    /\ UNCHANGED uvars

Next == POST_readBody \/ POST_create

Spec == Init /\ [][Next]_vars

(***************************************************************************)
(* The result table, stated directly on values                             *)
(***************************************************************************)
IsStringArray(v) == v.t = "array" /\ \A i \in 1..Len(v.a) : v.a[i].t = "string"

IsScore(v) == v.t = "null" \/ (v.t = "number" /\ v.f = 0 /\ v.n >= 0 /\ v.n <= 100)

\* A source {title?, url}; with urlChecked the url must also be well formed.
IsSource(x, urlChecked) ==
    /\ x.t = "object"
    /\ DOMAIN x.o \subseteq {"title", "url"}
    /\ "url" \in DOMAIN x.o
    /\ x.o["url"].t = "string"
    /\ urlChecked => IsURL(x.o["url"].s)
    /\ "title" \in DOMAIN x.o => x.o["title"].t \in {"string", "null"}

\* c has exactly the nine fields of the FactCheckResult table, each of its type.
MatchesTable(c, urlChecked) ==
    /\ c.t = "object"
    /\ DOMAIN c.o = Fields
    /\ \A f \in NullableStringFields : c.o[f].t \in {"string", "null"}
    /\ \A f \in StringArrayFields : IsStringArray(c.o[f])
    /\ IsScore(c.o["truthScore"])
    /\ c.o["report"].t = "string"
    /\ c.o["sources"].t = "array"
    /\ \A i \in 1..Len(c.o["sources"].a) : IsSource(c.o["sources"].a[i], urlChecked)

(***************************************************************************)
(* Properties of the analyze route (specification Spec)                    *)
(***************************************************************************)
BodyRead == JSONparse(req)

\* The request carries a JSON body that POST can destructure.
BodyReadable == BodyRead.ok /\ BodyRead.v.t # "null"

SentImage == Get(BodyRead.v, "image")

\* The image field is a string beginning with the image data-URL prefix.
WellFormedImage ==
    /\ BodyReadable
    /\ SentImage.t = "string"
    /\ Len(SentImage.s) >= 10
    /\ SubSeq(SentImage.s, 1, 10) = "data:image"

ErrorOnly(body) == body.t = "object" /\ DOMAIN body.o = {"error"}

\* C1: a request whose body is read and whose image field is omitted, not a
\* string, or a string without the image data-URL prefix is answered 400 with
\* the invalid-image message, and the external service is never called for it.
C1_InvalidImageIs400 ==
    (pc # "readBody" /\ BodyReadable /\ ~WellFormedImage)
        => /\ pc = "done"
           /\ status = 400
           /\ respBody = ErrorBody(Str(InvalidImageMessage))
           /\ calls = 0
           /\ ext = NoExt

C1_Witness ==
    /\ pc = "done" /\ status = 400 /\ calls = 0
    /\ SentImage = Str("data:text/plain;base64,AAA")

\* C2: an invocation that has returned has one of the statuses 200, 400, 422
\* and 500; a 200 body is the validator's output for a parsed value that the
\* validator accepted, with all nine fields; any other body is an error body.
C2_FourOutcomes ==
    /\ status \in {0, 200, 400, 422, 500}
    /\ (status # 0) <=> (pc = "done")
    /\ status = 200 =>
          /\ WellFormedImage /\ ext.kind = "response" /\ JSONparse(ext.text).ok
          /\ parsed = JSONparse(ext.text).v
          /\ safeParse(factCheckZ, parsed).success
          /\ respBody = safeParse(factCheckZ, parsed).data
          /\ MatchesTable(respBody, TRUE)
    /\ status \in {400, 422, 500} => ErrorOnly(respBody)

C2_Witness ==
    /\ pc = "done" /\ status = 200
    /\ "extra" \in DOMAIN parsed.o /\ "keyNumbers" \notin DOMAIN parsed.o

\* C3: with a well-formed image, when the external call returns text that is
\* not JSON, the answer is 500 with an error body, never a result.
C3_UnparseableIs500 ==
    (pc = "done" /\ WellFormedImage /\ ext.kind = "response" /\ ~JSONparse(ext.text).ok)
        => /\ status = 500
           /\ ErrorOnly(respBody)
           /\ respBody.o["error"].t = "string"

C3_Witness ==
    /\ pc = "done" /\ status = 500
    /\ ext.kind = "response" /\ ext.text = Truncated(Stringify(ValidResponse))

\* The fields of the parsed value that fail their own schema.
FailedFields(v) ==
    {f \in Fields : zParse(factCheckShape[f], Get(v, f), <<f>>).issues # <<>>}

\* C4: with a well-formed image, when the external call returns JSON that the
\* validator rejects, the answer is 422, its body is the flattened error list,
\* and the list has an entry for every field that failed, with one message
\* per issue found in it (for a value that is not an object, a form error).
C4_RejectedIs422 ==
    (pc = "done" /\ WellFormedImage /\ ext.kind = "response" /\ JSONparse(ext.text).ok
       /\ ~safeParse(factCheckZ, JSONparse(ext.text).v).success)
        => /\ status = 422
           /\ ErrorOnly(respBody)
           /\ DOMAIN respBody.o["error"].o = {"formErrors", "fieldErrors"}
           /\ IF parsed.t = "object"
              THEN /\ FailedFields(parsed) # {}
                   /\ DOMAIN respBody.o["error"].o["fieldErrors"].o = FailedFields(parsed)
                   /\ \A f \in FailedFields(parsed) :
                         Len(respBody.o["error"].o["fieldErrors"].o[f].a)
                            = Len(zParse(factCheckShape[f], Get(parsed, f), <<f>>).issues)
              ELSE Len(respBody.o["error"].o["formErrors"].a) >= 1

C4_Witness ==
    /\ pc = "done" /\ status = 422 /\ parsed.t = "object"
    /\ FailedFields(parsed) = {"truthScore", "report"}

\* C9: at most one call to the external service per request: exactly one
\* once the image was found well formed, none otherwise, and no further call
\* after the external call failed or its answer failed parsing or validation.
C9_OneExternalCall ==
    /\ calls \in {0, 1}
    /\ pc \in {"create", "done"} => calls = (IF WellFormedImage THEN 1 ELSE 0)
    /\ ext # NoExt => calls = 1

C9_Witness ==
    /\ pc = "done" /\ calls = 1 /\ status = 500 /\ ext.kind = "throw"

(***************************************************************************)
(* Properties of the validator (specification SpecV)                       *)
(***************************************************************************)
\* C5 as stated: every candidate that matches the table, its source urls
\* being any strings, is accepted and returned unchanged.
C5_TableCandidateAccepted ==
    (vpc # "input" /\ MatchesTable(cand, FALSE))
        => first.success /\ first.data = cand

\* C5 amended: every candidate that matches the table and whose source urls
\* are well-formed URLs is accepted and returned unchanged.
C5_UrlCandidateAccepted ==
    (vpc # "input" /\ MatchesTable(cand, TRUE))
        => first.success /\ first.data = cand

C5_Witness ==
    /\ vpc = "validated" /\ cand = Minimal /\ first.success /\ first.data = Minimal

\* C6: a candidate whose truthScore is a number below 0 or above 100 is
\* rejected, whatever its other fields; the score is not clamped.
C6_OutOfRangeRejected ==
    (vpc # "input" /\ Get(cand, "truthScore").t = "number"
       /\ (Get(cand, "truthScore").n < 0
           \/ Get(cand, "truthScore").n > 100
           \/ (Get(cand, "truthScore").n = 100 /\ Get(cand, "truthScore").f > 0)))
        => ~first.success /\ first.data = Undef

C6_Witness ==
    /\ vpc = "validated" /\ Get(cand, "truthScore") = IntNum(120)
    /\ MatchesTable(With(cand, "truthScore", Null), TRUE)
    /\ ~first.success

\* C7: a candidate without the report field is rejected, whatever its other
\* fields.
C7_MissingReportRejected ==
    (vpc # "input" /\ Get(cand, "report").t = "undefined") => ~first.success

C7_Witness ==
    /\ vpc = "validated" /\ cand.t = "object" /\ "report" \notin DOMAIN cand.o
    /\ MatchesTable(With(cand, "report", Str("x")), TRUE)
    /\ ~first.success

\* C8: for an accepted candidate, the validated result written as JSON, read
\* back and validated again is accepted and equal to the first result.
C8_RoundTrip ==
    /\ vpc = "reparsed" => JSONparse(wire).ok /\ back = first.data
    /\ vpc = "revalidated" => second.success /\ second.data = first.data

C8_Witness ==
    /\ vpc = "revalidated" /\ second.success
    /\ first.data # cand /\ Get(first.data, "productName") = Null

\* The candidate with its missing string-array fields set to the empty array.
Filled(c) ==
    Obj([k \in DOMAIN c.o \cup StringArrayFields |->
            IF k \in DOMAIN c.o THEN c.o[k] ELSE Arr(<<>>)])

\* C10: a candidate that lacks keyNumbers or measurableFacts and is valid
\* otherwise is accepted, and the result has an empty array for each of them.
C10_ArraysDefaultEmpty ==
    (vpc # "input" /\ cand.t = "object"
       /\ StringArrayFields \ DOMAIN cand.o # {}
       /\ MatchesTable(Filled(cand), TRUE))
        => /\ first.success
           /\ \A f \in StringArrayFields \ DOMAIN cand.o : Get(first.data, f) = Arr(<<>>)
           /\ first.data = Filled(cand)

C10_Witness ==
    /\ vpc = "validated" /\ cand.t = "object" /\ "keyNumbers" \notin DOMAIN cand.o
    /\ "measurableFacts" \in DOMAIN cand.o
    /\ first.success /\ Get(first.data, "keyNumbers") = Arr(<<>>)

\* C11 as stated: a candidate without the sources field is rejected, even
\* when all its other fields are valid.
C11_MissingSourcesRejected ==
    (vpc # "input" /\ cand.t = "object" /\ "sources" \notin DOMAIN cand.o)
        => ~first.success

\* C11 amended: a candidate without the sources field whose other fields are
\* valid is accepted, and the result carries sources as the empty array.
C11_MissingSourcesDefaultEmpty ==
    (vpc # "input" /\ cand.t = "object" /\ "sources" \notin DOMAIN cand.o
       /\ MatchesTable(With(cand, "sources", Arr(<<>>)), TRUE))
        => /\ first.success
           /\ first.data = With(cand, "sources", Arr(<<>>))

C11_Witness ==
    /\ vpc = "validated" /\ cand.t = "object" /\ "sources" \notin DOMAIN cand.o
    /\ first.success /\ Get(first.data, "sources") = Arr(<<>>)

(***************************************************************************)
(* The internal-error answer (specification Spec)                          *)
(***************************************************************************)
\* The error POST caught, for the failures that are neither the image check
\* nor a validation failure; Err("", "", <<>>) when there is none.
Underlying ==
    IF ~BodyRead.ok THEN Err("SyntaxError", "Unexpected end of JSON input", <<>>)
    ELSE IF BodyRead.v.t = "null"
         THEN Err("TypeError", "Cannot destructure property 'image' of null", <<>>)
    ELSE IF ext.kind = "throw" THEN ext.err
    ELSE IF ext.kind = "response" /\ ~JSONparse(ext.text).ok THEN SyntaxErr
    ELSE Err("", "", <<>>)

\* The request failed outside the image check and the validation.
InternalFailure ==
    \/ ~BodyReadable
    \/ ext.kind = "throw"
    \/ ext.kind = "response" /\ ~JSONparse(ext.text).ok

\* Messages that name the hosting account and are not for the caller's eyes.
InternalDetail == {"429 Rate limit reached for gpt-4o in organization org-abc123"}

SafeToExpose(m) == m \notin InternalDetail

\* C12: a 500 is answered exactly for the failures that are neither the image
\* check nor a validation failure (unreadable body, failed external call,
\* unparseable answer); its error is the underlying error's message when that
\* message is specific and safe to expose, "Unexpected server error" otherwise.
C12_InternalErrorMessage ==
    pc = "done" =>
        /\ (status = 500) <=> InternalFailure
        /\ status = 500 =>
              respBody = ErrorBody(Str(
                  IF Underlying.message # "" /\ SafeToExpose(Underlying.message)
                  THEN Underlying.message ELSE "Unexpected server error"))

(***************************************************************************)
(* app/page.tsx: the Page component.                                       *)
(*                                                                         *)
(* One action is one event handler, or one resumption of analyze() after   *)
(* an await, together with the re-render that follows it: React commits    *)
(* the state updates of a click, key press, change or drop, and re-runs    *)
(* the effect that registers handleKeyPress, before the next event is      *)
(* dispatched, so every handler reads the state of the last commit.        *)
(* imageDataUrl and error are Null or Str(..); result is Null or the       *)
(* object read from the response.                                          *)
(***************************************************************************)
MaxOutstanding == 2   \* analyze() invocations suspended at one time
MaxPending == 2       \* FileReader loads pending at one time

maxSize == 10 * 1024 * 1024

Frames == {"AAA", "BBB"}

\* canvas.toDataURL("image/webp", 0.92) of the frame drawn on the canvas.
toDataURL(frame) == Str("data:image/webp;base64," \o frame)

Files ==
    {[size |-> sz, type |-> ty, data |-> "CCC"] :
        sz \in {maxSize, maxSize + 1}, ty \in {"image/png", "application/pdf"}}

\* e.target.files / e.dataTransfer.files: empty, or one file.
FileLists == {<<>>} \cup {<<f>> : f \in Files}

\* reader.result once readAsDataURL(file) has loaded.
readAsDataURL(file) == Str("data:" \o file.type \o ";base64," \o file.data)

Remove(s, i) == SubSeq(s, 1, i - 1) \o SubSeq(s, i + 1, Len(s))

\* What fetch("/api/analyze") can resolve with: the answers of the route,
\* an answer with no JSON body (body Undef), and 200 bodies the page guards
\* against.
ServerResponses ==
    {[ok |-> TRUE, status |-> 200, body |-> d] :
        d \in {ValidResponse, Minimal, Null, Undef, ErrorBody(Str("quota exceeded"))}}
    \cup {[ok |-> FALSE, status |-> r.status, body |-> r.body] :
        r \in {NextResponseJson(ErrorBody(Str(InvalidImageMessage)), 400),
               CatchResponse(Err("ZodError", "invalid", <<>>)),
               CatchResponse(Err("Error", "", <<>>))}}
    \cup {[ok |-> FALSE, status |-> 502, body |-> b] : b \in {Undef, Null}}

\* What fetch can reject with.
FetchFailures == {Err("TypeError", "Failed to fetch", <<>>), Err("Error", "", <<>>)}

NoResponse == [ok |-> FALSE, status |-> 0, body |-> Undef]

\* new Error(x).message: String(x).
ErrorMessageOf(x) == IF x.t = "string" THEN x.s ELSE "[object Object]"

\* analyze() from the resolution of fetch to the end of its try block:
\* the value it hands to setResult, or the error it throws.
Settle(res) ==
    IF ~res.ok
    THEN LET errorData == IF res.body.t = "undefined" THEN EmptyObj ELSE res.body
         IN  IF errorData.t = "null"
             THEN [kind |-> "throw",
                   err |-> Err("TypeError", "Cannot read properties of null (reading 'error')", <<>>),
                   data |-> Null]
             ELSE [kind |-> "throw",
                   err |-> Err("Error",
                               IF ~Falsy(Get(errorData, "error"))
                               THEN ErrorMessageOf(Get(errorData, "error"))
                               ELSE "Server returned " \o ToString(res.status), <<>>),
                   data |-> Null]
    ELSE IF res.body.t = "undefined"
    THEN [kind |-> "throw", err |-> SyntaxErr, data |-> Null]
    ELSE IF res.body.t = "null"
    THEN [kind |-> "throw",
          err |-> Err("TypeError", "Cannot read properties of null (reading 'error')", <<>>),
          data |-> Null]
    ELSE IF ~Falsy(Get(res.body, "error"))
    THEN [kind |-> "throw",
          err |-> Err("Error", ErrorMessageOf(Get(res.body, "error")), <<>>),
          data |-> Null]
    ELSE [kind |-> "result", err |-> Err("", "", <<>>), data |-> res.body]

InitP ==
    /\ HandlerOff
    /\ HarnessOff
    /\ mounted = TRUE /\ imageDataUrl = Null /\ result = Null /\ resultOf = Null
    /\ loading = FALSE /\ error = Null /\ isDesktop = FALSE
    /\ cameraSupported = TRUE /\ runs = <<>> /\ readers = <<>>

\* checkDevice, run on mount and on every resize of the window.
checkDevice ==
    /\ mounted
    /\ isDesktop' \in BOOLEAN
    /\ cameraSupported' \in BOOLEAN
    /\ UNCHANGED <<mounted, imageDataUrl, result, resultOf, loading, error, runs, readers>>
    /\ UNCHANGED <<hvars, vvars>>

\* initializeCamera when getUserMedia or play() rejects.
initializeCamera ==
    /\ mounted /\ cameraSupported
    /\ cameraSupported' = FALSE
    /\ UNCHANGED <<mounted, imageDataUrl, result, resultOf, loading, error, isDesktop,
                   runs, readers>>
    /\ UNCHANGED <<hvars, vvars>>

\* The Capture button: rendered in cameraUI, which is shown while there is
\* no image on a narrow window; disabled without camera support.
capturePhoto ==
    /\ mounted /\ Falsy(imageDataUrl) /\ ~isDesktop /\ cameraSupported
    /\ \E frame \in Frames : imageDataUrl' = toDataURL(frame)
    /\ result' = Null /\ resultOf' = Null
    /\ error' = Null
    /\ UNCHANGED <<mounted, loading, isDesktop, cameraSupported, runs, readers>>
    /\ UNCHANGED <<hvars, vvars>>

\* new FileReader(); reader.onload = ...; reader.readAsDataURL(file);
\* setResult(null); setError(null)
StartReader(file) ==
    /\ Len(readers) < MaxPending
    /\ readers' = Append(readers, readAsDataURL(file))
    /\ result' = Null /\ resultOf' = Null
    /\ error' = Null

\* The change event of the file input (part of cameraUI).
onFileUpload ==
    /\ mounted /\ Falsy(imageDataUrl) /\ ~isDesktop
    /\ \E files \in FileLists :
          IF files = <<>>
          THEN UNCHANGED <<result, resultOf, error, readers>>
          ELSE IF files[1].size > maxSize
          THEN /\ error' = Str("File too large. Please use an image under 10MB.")
               /\ UNCHANGED <<result, resultOf, readers>>
          ELSE IF ~startsWith(files[1].type, "image/")
          THEN /\ error' = Str("Please select a valid image file.")
               /\ UNCHANGED <<result, resultOf, readers>>
          ELSE StartReader(files[1])
    /\ UNCHANGED <<mounted, imageDataUrl, loading, isDesktop, cameraSupported, runs>>
    /\ UNCHANGED <<hvars, vvars>>

\* A drop on dragDropZone, which is shown while there is no image on a
\* wide window.
handleDrop ==
    /\ mounted /\ Falsy(imageDataUrl) /\ isDesktop
    /\ \E files \in FileLists :
          IF files # <<>> /\ startsWith(files[1].type, "image/")
          THEN StartReader(files[1])
          ELSE UNCHANGED <<result, resultOf, error, readers>>
    /\ UNCHANGED <<mounted, imageDataUrl, loading, isDesktop, cameraSupported, runs>>
    /\ UNCHANGED <<hvars, vvars>>

\* reader.onload = () => setImageDataUrl(reader.result), for any pending load.
reader_onload ==
    /\ mounted
    /\ \E i \in 1..Len(readers) :
          /\ imageDataUrl' = readers[i]
          /\ readers' = Remove(readers, i)
    /\ UNCHANGED <<mounted, result, resultOf, loading, error, isDesktop,
                   cameraSupported, runs>>
    /\ UNCHANGED <<hvars, vvars>>

resetAll ==
    /\ imageDataUrl' = Null
    /\ result' = Null /\ resultOf' = Null
    /\ error' = Null
    /\ UNCHANGED <<loading, runs>>

\* analyze() up to its first await: the request carries the image of the
\* render the callback was created in.
analyze ==
    IF Falsy(imageDataUrl)
    THEN UNCHANGED <<imageDataUrl, result, resultOf, error, loading, runs>>
    ELSE /\ Len(runs) < MaxOutstanding
         /\ loading' = TRUE
         /\ error' = Null
         /\ result' = Null /\ resultOf' = Null
         /\ runs' = Append(runs, [img |-> imageDataUrl, at |-> "fetch", res |-> NoResponse])
         /\ UNCHANGED imageDataUrl

\* An Analyze button that is enabled whenever there is an image.
AnalyzeEnabled_noLoading == ~Falsy(imageDataUrl)

\* disabled={!imageDataUrl || loading}
AnalyzeEnabled == ~(Falsy(imageDataUrl) \/ loading)

\* A click on the Analyze button.
AnalyzeClick ==
    /\ mounted /\ AnalyzeEnabled
    /\ analyze
    /\ UNCHANGED <<mounted, isDesktop, cameraSupported, readers>>
    /\ UNCHANGED <<hvars, vvars>>

\* A click on the Retake button, which is never disabled.
RetakeClick ==
    /\ mounted
    /\ resetAll
    /\ UNCHANGED <<mounted, isDesktop, cameraSupported, readers>>
    /\ UNCHANGED <<hvars, vvars>>

PressedKeys == {"Enter", "Escape", "a"}

\* The keydown listener on window.
handleKeyPress ==
    /\ mounted
    /\ \E key \in PressedKeys :
          IF key = "Enter" /\ ~Falsy(imageDataUrl) /\ ~loading
          THEN analyze
          ELSE IF key = "Escape"
          THEN resetAll
          ELSE UNCHANGED <<imageDataUrl, result, resultOf, error, loading, runs>>
    /\ UNCHANGED <<mounted, isDesktop, cameraSupported, readers>>
    /\ UNCHANGED <<hvars, vvars>>

\* catch (err) { setError(err?.message || "Something went wrong ...") }
\* finally { setLoading(false) }, ending invocation i.
Catch(i, err) ==
    /\ error' = Str(IF err.message # "" THEN err.message
                    ELSE "Something went wrong while analyzing the advertisement.")
    /\ loading' = FALSE
    /\ runs' = Remove(runs, i)
    /\ UNCHANGED <<result, resultOf>>

\* The fetch of an invocation settles: a rejection goes to catch, a response
\* leads to the await of res.json().
fetch_settles ==
    /\ mounted
    /\ \E i \in 1..Len(runs) :
          /\ runs[i].at = "fetch"
          /\ \/ \E e \in FetchFailures : Catch(i, e)
             \/ \E r \in ServerResponses :
                   /\ runs' = [runs EXCEPT ![i] = [img |-> runs[i].img, at |-> "json", res |-> r]]
                   /\ UNCHANGED <<result, resultOf, error, loading>>
    /\ UNCHANGED <<mounted, imageDataUrl, isDesktop, cameraSupported, readers>>
    /\ UNCHANGED <<hvars, vvars>>

\* res.json() of an invocation settles and analyze() runs to its end.
json_settles ==
    /\ mounted
    /\ \E i \in 1..Len(runs) :
          /\ runs[i].at = "json"
          /\ LET o == Settle(runs[i].res)
             IN  IF o.kind = "throw"
                 THEN Catch(i, o.err)
                 ELSE /\ result' = o.data
                      /\ resultOf' = runs[i].img
                      /\ loading' = FALSE
                      /\ runs' = Remove(runs, i)
                      /\ UNCHANGED error
    /\ UNCHANGED <<mounted, imageDataUrl, isDesktop, cameraSupported, readers>>
    /\ UNCHANGED <<hvars, vvars>>

NextP ==
    \/ initializeCamera \/ checkDevice
    \/ capturePhoto \/ onFileUpload \/ handleDrop \/ reader_onload
    \/ AnalyzeClick \/ RetakeClick \/ handleKeyPress
    \/ fetch_settles \/ json_settles

SpecP == InitP /\ [][NextP]_vars

(***************************************************************************)
(* Claims about the page (specification SpecP)                             *)
(***************************************************************************)
\* C13: at most one /api/analyze request issued by the page is outstanding
\* at any time, whatever the interleaving of Analyze clicks, Enter presses,
\* resets, image selections and response arrivals.
C13_OneOutstanding == mounted => Len(runs) <= 1

\* A request is outstanding for an image that was reset and replaced by
\* another one, so that Analyze and Enter are attempted against the flag.
C13_Witness ==
    /\ mounted /\ Len(runs) = 1 /\ loading
    /\ ~Falsy(imageDataUrl) /\ runs[1].img # imageDataUrl

\* C14: a result that is displayed is the result of analyzing the image
\* currently held in imageDataUrl.
C14_ResultOfCurrentImage ==
    (mounted /\ result # Null) => (imageDataUrl # Null /\ resultOf = imageDataUrl)

\* C15: result and error are never both non-null.
C15_ResultXorError == mounted => ~(result # Null /\ error # Null)

====
